---- MODULE Spec2Model ----
(***************************************************************************)
(* Model of api/server/services/LangfuseService.js: the LangfuseService    *)
(* singleton, its environment-driven initialize(), the guarded pass-through *)
(* operations, the asynchronous flush()/shutdown() and the SIGINT/SIGTERM   *)
(* listeners registered by setupGracefulShutdown().                         *)
(*                                                                         *)
(* Numbers: the sample rate and Math.random() draws are fixed-point values  *)
(* in tenths (1.0 is the integer One = 10); NaN is a separate value.  The   *)
(* sample-rate inputs therefore carry at most one fractional digit.         *)
(***************************************************************************)
EXTENDS Integers, Sequences, FiniteSets, TLC

\* ------------------------------------------------------------------ bounds
MaxOps == 3

\* ------------------------------------------------------- values and numbers
One == 10

Null == "null"
Client == "client"
Handle == "handle"
Undefined == "<undefined>"

Num(v) == [nan |-> FALSE, v |-> v]
NaN == [nan |-> TRUE, v |-> 0]

MathMin(a, b) == IF a.nan \/ b.nan THEN NaN ELSE IF a.v <= b.v THEN a ELSE b
MathMax(a, b) == IF a.nan \/ b.nan THEN NaN ELSE IF a.v >= b.v THEN a ELSE b
NumLt(a, b) == ~a.nan /\ ~b.nan /\ a.v < b.v
NumGe(a, b) == ~a.nan /\ ~b.nan /\ a.v >= b.v

Signals == {"SIGINT", "SIGTERM"}
Errors == {"E1", "E2"}
\* Math.random() draws in [0, 1): the ends and both sides of one half.
Draws == {0, 4, 5, One - 1}

\* --------------------------------------------------------------- parseFloat
Digits == <<"0", "1", "2", "3", "4", "5", "6", "7", "8", "9">>
IsDigit(c) == \E d \in 1 .. 10 : Digits[d] = c
DigitVal(c) == (CHOOSE d \in 1 .. 10 : Digits[d] = c) - 1

RECURSIVE DigitsLen(_, _)
DigitsLen(s, i) ==
  IF i <= Len(s) /\ IsDigit(s[i]) THEN 1 + DigitsLen(s, i + 1) ELSE 0

RECURSIVE IntOf(_, _, _)
IntOf(s, i, n) ==
  IF n = 0 THEN 0 ELSE IntOf(s, i, n - 1) * 10 + DigitVal(s[i + n - 1])

\* parseFloat: optional sign, digits, optional "." and digits; the longest
\* such prefix is the value, and NaN when there is no digit at all.
ParseFloat(s) ==
  LET sgnLen == IF Len(s) >= 1 /\ s[1] \in {"-", "+"} THEN 1 ELSE 0
      neg    == sgnLen = 1 /\ s[1] = "-"
      nInt   == DigitsLen(s, sgnLen + 1)
      dotPos == sgnLen + 1 + nInt
      hasDot == dotPos <= Len(s) /\ s[dotPos] = "."
      nFrac  == IF hasDot THEN DigitsLen(s, dotPos + 1) ELSE 0
      intV   == IntOf(s, sgnLen + 1, nInt)
      tenths == IF nFrac > 0 THEN DigitVal(s[dotPos + 1]) ELSE 0
      mag    == intV * One + tenths
  IN  IF nInt = 0 /\ nFrac = 0 THEN NaN
      ELSE Num(IF neg THEN 0 - mag ELSE mag)

\* ---------------------------------------------------- process environment
EnabledValues == {Undefined, "true", "false"}
KeyValues == {Undefined, "", "key"}
DebugValues == {Undefined, "true"}
FlushAtShutdownValues == {Undefined, "false"}

Unset == [set |-> FALSE, chars |-> <<>>]
Str(cs) == [set |-> TRUE, chars |-> cs]
SampleRateValues ==
  { Unset, Str(<<>>), Str(<<"0", ".", "5">>), Str(<<"1", ".", "5">>),
    Str(<<"-", "0", ".", "2">>), Str(<<"0">>), Str(<<"a", "b", "c">>) }

Environments ==
  [ LANGFUSE_ENABLED : EnabledValues,
    LANGFUSE_PUBLIC_KEY : KeyValues,
    LANGFUSE_SECRET_KEY : KeyValues,
    LANGFUSE_SAMPLE_RATE : SampleRateValues,
    LANGFUSE_DEBUG : DebugValues,
    LANGFUSE_FLUSH_AT_SHUTDOWN : FlushAtShutdownValues ]

VARIABLES env, initialized, enabled, client, sampleRate, handlers,
          clientsBuilt, clientCalls, handleCalls, last, tasks, nOps

vars == <<env, initialized, enabled, client, sampleRate, handlers,
          clientsBuilt, clientCalls, handleCalls, last, tasks, nOps>>

facade == <<initialized, enabled, client, sampleRate, handlers, clientsBuilt>>

NoDraw == 0 - 1

Last(op, ret, threw, delegated, errs, draw, sampled) ==
  [ op |-> op, ret |-> ret, threw |-> threw, delegated |-> delegated,
    errs |-> errs, draw |-> draw, sampled |-> sampled, dthrew |-> FALSE,
    preInit |-> initialized, preOn |-> (enabled /\ client # Null) ]

\* The same record for a call whose delegate call threw (dthrew).
LastD(l, dthrew) == [l EXCEPT !.dthrew = dthrew]

\* ------------------------------------------------------------- constructor
Init ==
  /\ env \in Environments
  /\ client = Null
  /\ enabled = FALSE
  /\ sampleRate = Num(One)
  /\ initialized = FALSE
  /\ handlers = [s \in Signals |-> 0]
  /\ clientsBuilt = 0
  /\ clientCalls = 0
  /\ handleCalls = 0
  /\ tasks = <<>>
  /\ nOps = 0
  /\ last = [ op |-> "new", ret |-> "undefined", threw |-> FALSE,
              delegated |-> 0, errs |-> 0, draw |-> NoDraw,
              sampled |-> FALSE, dthrew |-> FALSE, preInit |-> FALSE,
              preOn |-> FALSE ]

\* ------------------------------------------------------------- initialize
Falsy(v) == v = Undefined \/ v = ""

\* Mutant: the early return of initialize() is missing.
NeverInitialized(init) == FALSE

AlreadyInitialized(init) == init

EnabledFlag(e) == e.LANGFUSE_ENABLED = "true"

\* Mutant: only the public key is validated.
MissingKeysPublicOnly(publicKey, secretKey) == Falsy(publicKey)

MissingKeys(publicKey, secretKey) == Falsy(publicKey) \/ Falsy(secretKey)

\* process.env.LANGFUSE_SAMPLE_RATE || '1.0'
SampleRateInput(v) ==
  IF v.set /\ v.chars # <<>> THEN v.chars ELSE <<"1", ".", "0">>

\* Mutant: the upper clamp Math.min(1, .) is missing.
ClampLowerOnly(x) == MathMax(Num(0), x)

Clamp(x) == MathMax(Num(0), MathMin(Num(One), x))

DebugFlag(e) == e.LANGFUSE_DEBUG = "true"

FlushAtShutdown(e) == e.LANGFUSE_FLUSH_AT_SHUTDOWN # "false"

\* The listeners registered on each signal after setupGracefulShutdown().
SetupGracefulShutdown(h, e, cl) ==
  IF ~FlushAtShutdown(e) \/ cl = Null THEN h
  ELSE [s \in Signals |-> h[s] + 1]

\* Mutant: the catch block does not reset this.enabled.
CatchEnabledKept == TRUE

\* The catch block of initialize(): the value it leaves in this.enabled.
CatchEnabled == FALSE

\* The fields after the body of initialize() has run from an uninitialized
\* facade; ctorThrows and debugThrows are the delegate's behaviour.
InitializeBody(e, ctorThrows, debugThrows) ==
  LET base == [ enabled |-> FALSE, client |-> client,
                sampleRate |-> sampleRate, initialized |-> TRUE,
                handlers |-> handlers, built |-> 0, errs |-> 0,
                dthrew |-> FALSE ]
      rate == Clamp(ParseFloat(SampleRateInput(e.LANGFUSE_SAMPLE_RATE)))
  IN  IF ~EnabledFlag(e) THEN base
      ELSE IF MissingKeys(e.LANGFUSE_PUBLIC_KEY, e.LANGFUSE_SECRET_KEY)
      THEN base
      ELSE IF ctorThrows
      THEN [base EXCEPT !.enabled = CatchEnabled, !.sampleRate = rate,
                        !.errs = 1, !.dthrew = TRUE]
      ELSE IF DebugFlag(e) /\ debugThrows
      THEN [base EXCEPT !.enabled = CatchEnabled, !.sampleRate = rate,
                        !.client = Client, !.built = 1, !.errs = 1,
                        !.dthrew = TRUE]
      ELSE [base EXCEPT !.enabled = TRUE, !.sampleRate = rate,
                        !.client = Client, !.built = 1,
                        !.handlers = SetupGracefulShutdown(handlers, e, Client)]

Initialize(ctorThrows, debugThrows) ==
  /\ nOps < MaxOps
  /\ nOps' = nOps + 1
  /\ IF AlreadyInitialized(initialized)
     THEN /\ UNCHANGED facade
          /\ last' = Last("initialize", "undefined", FALSE, 0, 0, NoDraw, FALSE)
     ELSE LET r == InitializeBody(env, ctorThrows, debugThrows)
          IN  /\ enabled' = r.enabled
              /\ client' = r.client
              /\ sampleRate' = r.sampleRate
              /\ initialized' = r.initialized
              /\ handlers' = r.handlers
              /\ clientsBuilt' = clientsBuilt + r.built
              /\ last' = LastD(Last("initialize", "undefined", FALSE, 0,
                                    r.errs, NoDraw, FALSE), r.dthrew)
  /\ UNCHANGED <<env, clientCalls, handleCalls, tasks>>

\* ------------------------------------------------------------ shouldTrace
Off(en, cl) == ~en \/ cl = Null

\* Math.random() is reached only past the two early returns.
UsesDraw(en, cl, rate) == ~Off(en, cl) /\ ~NumGe(rate, Num(One))

\* Mutant: the last line is written as !(Math.random() >= this.sampleRate).
ShouldTraceValueNegated(en, cl, rate, draw) ==
  IF Off(en, cl) THEN FALSE
  ELSE IF NumGe(rate, Num(One)) THEN TRUE
  ELSE ~NumGe(Num(draw), rate)

ShouldTraceValue(en, cl, rate, draw) ==
  IF Off(en, cl) THEN FALSE
  ELSE IF NumGe(rate, Num(One)) THEN TRUE
  ELSE NumLt(Num(draw), rate)

BoolStr(b) == IF b THEN "true" ELSE "false"

ShouldTrace(draw) ==
  /\ nOps < MaxOps
  /\ nOps' = nOps + 1
  /\ LET st == ShouldTraceValue(enabled, client, sampleRate, draw)
         d  == IF UsesDraw(enabled, client, sampleRate) THEN draw ELSE NoDraw
     IN  last' = Last("shouldTrace", BoolStr(st), FALSE, 0, 0, d, st)
  /\ UNCHANGED <<env, facade, clientCalls, handleCalls, tasks>>

\* ------------------------------------------------ guarded delegate calls
\* Mutant: the delegate call is not wrapped in try/catch.
TryCatchRethrow(okRet, absent, throws) ==
  [ ret |-> IF throws THEN "none" ELSE okRet, threw |-> throws, errs |-> 0 ]

\* try { return delegate(...) } catch (error) { logger.error(...); return absent }
TryCatch(okRet, absent, throws) ==
  [ ret |-> IF throws THEN absent ELSE okRet,
    threw |-> FALSE,
    errs |-> IF throws THEN 1 ELSE 0 ]

Trace(draw, throws) ==
  /\ nOps < MaxOps
  /\ nOps' = nOps + 1
  /\ LET st == ShouldTraceValue(enabled, client, sampleRate, draw)
         d  == IF UsesDraw(enabled, client, sampleRate) THEN draw ELSE NoDraw
         r  == TryCatch("object", "null", throws)
     IN  IF ~st
         THEN /\ last' = Last("trace", "null", FALSE, 0, 0, d, st)
              /\ UNCHANGED clientCalls
         ELSE /\ last' = LastD(Last("trace", r.ret, r.threw, 1, r.errs, d, st),
                                throws)
              /\ clientCalls' = clientCalls + 1
  /\ UNCHANGED <<env, facade, handleCalls, tasks>>

\* span, generation and event share one guard.
ChildGuard(en, cl, tr) == ~en \/ cl = Null \/ tr = Null

UpdateTraceGuard(en, tr) == ~en \/ tr = Null

\* Mutant: score() tests only this.client.
ScoreGuardClientOnly(en, cl) == cl = Null

ScoreGuard(en, cl) == ~en \/ cl = Null

ChildOps == {"span", "generation", "event"}
ChildOkRet(op) == IF op = "event" THEN "undefined" ELSE "object"
ChildAbsent(op) == IF op = "event" THEN "undefined" ELSE "null"

\* span(trace, options), generation(trace, options), event(trace, options)
Child(op, tr, throws) ==
  /\ nOps < MaxOps
  /\ nOps' = nOps + 1
  /\ LET r == TryCatch(ChildOkRet(op), ChildAbsent(op), throws)
     IN  IF ChildGuard(enabled, client, tr)
         THEN /\ last' = Last(op, ChildAbsent(op), FALSE, 0, 0, NoDraw, FALSE)
              /\ UNCHANGED handleCalls
         ELSE /\ last' = LastD(Last(op, r.ret, r.threw, 1, r.errs, NoDraw,
                                     FALSE), throws)
              /\ handleCalls' = handleCalls + 1
  /\ UNCHANGED <<env, facade, clientCalls, tasks>>

UpdateTrace(tr, throws) ==
  /\ nOps < MaxOps
  /\ nOps' = nOps + 1
  /\ LET r == TryCatch("undefined", "undefined", throws)
     IN  IF UpdateTraceGuard(enabled, tr)
         THEN /\ last' = Last("updateTrace", "undefined", FALSE, 0, 0,
                              NoDraw, FALSE)
              /\ UNCHANGED handleCalls
         ELSE /\ last' = LastD(Last("updateTrace", r.ret, r.threw, 1, r.errs,
                                     NoDraw, FALSE), throws)
              /\ handleCalls' = handleCalls + 1
  /\ UNCHANGED <<env, facade, clientCalls, tasks>>

Score(throws) ==
  /\ nOps < MaxOps
  /\ nOps' = nOps + 1
  /\ LET r == TryCatch("undefined", "undefined", throws)
     IN  IF ScoreGuard(enabled, client)
         THEN /\ last' = Last("score", "undefined", FALSE, 0, 0, NoDraw, FALSE)
              /\ UNCHANGED clientCalls
         ELSE /\ last' = LastD(Last("score", r.ret, r.threw, 1, r.errs, NoDraw,
                                     FALSE), throws)
              /\ clientCalls' = clientCalls + 1
  /\ UNCHANGED <<env, facade, handleCalls, tasks>>

\* ------------------------------------------------------- getClient/isEnabled
GetClientValue(en, cl) == IF en THEN cl ELSE Null

IsEnabledValue(en) == en

GetClient ==
  /\ nOps < MaxOps
  /\ nOps' = nOps + 1
  /\ last' = Last("getClient", GetClientValue(enabled, client), FALSE, 0, 0,
                  NoDraw, FALSE)
  /\ UNCHANGED <<env, facade, clientCalls, handleCalls, tasks>>

IsEnabled ==
  /\ nOps < MaxOps
  /\ nOps' = nOps + 1
  /\ last' = Last("isEnabled", BoolStr(IsEnabledValue(enabled)), FALSE, 0, 0,
                  NoDraw, FALSE)
  /\ UNCHANGED <<env, facade, clientCalls, handleCalls, tasks>>

\* ------------------------------------------------------ flush and shutdown
\* An asynchronous call that reached the delegate (a call that returns at
\* the guard is an already resolved promise): kind is the function called, pc its
\* position ("await" on the delegate's promise, "resolved", "rejected"),
\* hangs says the delegate's promise never settles, out is how it settled
\* ("pending" before) and reason the value the call rejected with.
Task(kind, sig, pc, delegated, hangs, info, handlerLog) ==
  [ kind |-> kind, sig |-> sig, pc |-> pc, delegated |-> delegated,
    hangs |-> hangs, errs |-> 0, info |-> info, handlerLog |-> handlerLog,
    out |-> "pending", reason |-> "none" ]

FlushGuard(en, cl) == ~en \/ cl = Null

ShutdownGuard(en, cl) == ~en \/ cl = Null

Flush(hangs) ==
  /\ nOps < MaxOps
  /\ nOps' = nOps + 1
  /\ IF FlushGuard(enabled, client)
     THEN /\ last' = Last("flush", "resolved", FALSE, 0, 0, NoDraw, FALSE)
          /\ UNCHANGED <<tasks, clientCalls>>
     ELSE /\ last' = Last("flush", "pending", FALSE, 1, 0, NoDraw, FALSE)
          /\ tasks' = Append(tasks, Task("flush", "none", "await", 1, hangs,
                                         0, "none"))
          /\ clientCalls' = clientCalls + 1
  /\ UNCHANGED <<env, facade, handleCalls>>

Shutdown(hangs) ==
  /\ nOps < MaxOps
  /\ nOps' = nOps + 1
  /\ IF ShutdownGuard(enabled, client)
     THEN /\ last' = Last("shutdown", "resolved", FALSE, 0, 0, NoDraw, FALSE)
          /\ UNCHANGED <<tasks, clientCalls>>
     ELSE /\ last' = Last("shutdown", "pending", FALSE, 1, 0, NoDraw, FALSE)
          /\ tasks' = Append(tasks, Task("shutdown", "none", "await", 1, hangs,
                                         0, "none"))
          /\ clientCalls' = clientCalls + 1
  /\ UNCHANGED <<env, facade, handleCalls>>

\* Mutant: the catch block logs and does not rethrow.
AwaitOutcomeSwallow(out) ==
  IF out = "ok"
  THEN [ pc |-> "resolved", errs |-> 0, reason |-> "none" ]
  ELSE [ pc |-> "resolved", errs |-> 1, reason |-> "none" ]

\* The rest of flush() and of shutdown() once the delegate's promise has
\* settled with out ("ok" or the failure): catch, logger.error, throw error.
AwaitOutcome(out) ==
  IF out = "ok"
  THEN [ pc |-> "resolved", errs |-> 0, reason |-> "none" ]
  ELSE [ pc |-> "rejected", errs |-> 1, reason |-> out ]

\* Mutant: the listener awaits flush() outside any try/catch.
HandlerOutcomeNoCatch(f) ==
  IF f.pc = "resolved"
  THEN [ pc |-> "resolved", handlerLog |-> "success", errs |-> 0,
         reason |-> "none" ]
  ELSE [ pc |-> "rejected", handlerLog |-> "none", errs |-> 0,
         reason |-> f.reason ]

\* The rest of the signal listener once its flush() call has settled as f:
\* try { await this.flush(); logger.info } catch { logger.error }.
HandlerOutcome(f) ==
  IF f.pc = "resolved"
  THEN [ pc |-> "resolved", handlerLog |-> "success", errs |-> 0,
         reason |-> "none" ]
  ELSE [ pc |-> "resolved", handlerLog |-> "error", errs |-> 1,
         reason |-> "none" ]

\* One listener invocation: logs "Received <signal>" and calls flush().
HandlerTask(sig, hangs) ==
  IF FlushGuard(enabled, client)
  THEN [Task("signal", sig, "resolved", 0, FALSE, 2, "success")
          EXCEPT !.out = "none"]
  ELSE Task("signal", sig, "await", 1, hangs, 1, "none")

RECURSIVE Copies(_, _)
Copies(t, n) == IF n = 0 THEN <<>> ELSE <<t>> \o Copies(t, n - 1)

\* Delivery of SIGINT or SIGTERM: every registered listener runs.
Signal(sig, hangs) ==
  /\ nOps < MaxOps
  /\ nOps' = nOps + 1
  /\ LET n == handlers[sig]
         t == HandlerTask(sig, hangs)
     IN  /\ tasks' = tasks \o Copies(t, n)
         /\ clientCalls' = clientCalls + n * t.delegated
         /\ last' = Last("signal", "undefined", FALSE, n * t.delegated, 0,
                         NoDraw, FALSE)
  /\ UNCHANGED <<env, facade, handleCalls>>

\* The delegate's promise of task i settles and the awaiting code resumes.
Settle(i, out) ==
  /\ i \in 1 .. Len(tasks)
  /\ tasks[i].pc = "await"
  /\ ~tasks[i].hangs
  /\ LET t == tasks[i]
         a == AwaitOutcome(out)
         h == HandlerOutcome(a)
     IN  tasks' =
           [tasks EXCEPT ![i] =
              IF t.kind = "signal"
              THEN [t EXCEPT !.pc = h.pc, !.errs = a.errs + h.errs,
                             !.info = t.info +
                                 (IF h.handlerLog = "success" THEN 1 ELSE 0),
                             !.handlerLog = h.handlerLog,
                             !.out = out, !.reason = h.reason]
              ELSE [t EXCEPT !.pc = a.pc, !.errs = a.errs,
                             !.info = IF t.kind = "shutdown" /\ a.pc = "resolved"
                                      THEN 1 ELSE 0,
                             !.out = out, !.reason = a.reason]]
  /\ UNCHANGED <<env, facade, clientCalls, handleCalls, last, nOps>>

\* ------------------------------------------------------------ specification
Handles == {Null, Handle}
Outcomes == {"ok"} \cup Errors

Next ==
  \/ \E c \in BOOLEAN, d \in BOOLEAN : Initialize(c, d)
  \/ \E r \in Draws : ShouldTrace(r)
  \/ \E r \in Draws, th \in BOOLEAN : Trace(r, th)
  \/ \E op \in ChildOps, tr \in Handles, th \in BOOLEAN : Child(op, tr, th)
  \/ \E tr \in Handles, th \in BOOLEAN : UpdateTrace(tr, th)
  \/ \E th \in BOOLEAN : Score(th)
  \/ \E hg \in BOOLEAN : Flush(hg)
  \/ \E hg \in BOOLEAN : Shutdown(hg)
  \/ \E sig \in Signals, hg \in BOOLEAN : Signal(sig, hg)
  \/ \E i \in 1 .. Len(tasks), out \in Outcomes : Settle(i, out)
  \/ GetClient
  \/ IsEnabled

Spec == Init /\ [][Next]_vars

\* The event loop runs the continuation of every promise that settles.
FairSpec ==
  Spec /\ WF_vars(\E i \in 1 .. Len(tasks), out \in Outcomes : Settle(i, out))

TypeOK ==
  /\ env \in Environments
  /\ initialized \in BOOLEAN
  /\ enabled \in BOOLEAN
  /\ client \in {Null, Client}
  /\ nOps \in 0 .. MaxOps
  /\ Len(tasks) <= MaxOps

\* ------------------------------------------------------------------ claims
GuardedOps ==
  {"trace", "span", "generation", "event", "updateTrace", "score",
   "flush", "shutdown"}

\* What each operation returns when it does nothing.
AbsentOf(op) ==
  IF op \in {"trace", "span", "generation"} THEN "null"
  ELSE IF op \in {"flush", "shutdown"} THEN "resolved"
  ELSE "undefined"

FlagTrue == env.LANGFUSE_ENABLED = "true"
KeyAbsent(k) == k \in {Undefined, ""}
KeysPresent ==
  ~KeyAbsent(env.LANGFUSE_PUBLIC_KEY) /\ ~KeyAbsent(env.LANGFUSE_SECRET_KEY)
NoHandlers == \A s \in Signals : handlers[s] = 0
FirstInitializeReturned == last.op = "initialize" /\ ~last.preInit

\* C1: while the facade is disabled or uninitialized no call has reached
\* the delegate client or a trace handle, no asynchronous delegate call is
\* in flight, and the last guarded operation returned its absent result
\* (null, nothing, or an already resolved promise) without throwing.
C1_DisabledMakesNoDelegateCalls ==
  (~enabled \/ client = Null \/ ~initialized) =>
     /\ clientCalls = 0
     /\ handleCalls = 0
     /\ tasks = <<>>
     /\ last.op \in GuardedOps =>
          /\ last.delegated = 0
          /\ ~last.threw
          /\ last.errs = 0
          /\ last.ret = AbsentOf(last.op)

C1_Witness ==
  /\ initialized /\ ~enabled /\ client = Client
  /\ last.op = "score" /\ nOps >= 2

\* C2: a step in which the delegate call of trace, span, generation, event,
\* updateTrace or score throws lets no exception escape, logs exactly one
\* error, returns the absent result and leaves the facade unchanged and
\* still enabled with its client.
C2_DelegateErrorsAreSwallowed ==
  [][ (last'.dthrew /\ last'.op \in GuardedOps /\ nOps' # nOps) =>
        /\ ~last'.threw
        /\ last'.errs = 1
        /\ last'.ret = AbsentOf(last'.op)
        /\ UNCHANGED facade
        /\ enabled' /\ client' # Null ]_vars

C2_Witness ==
  /\ last.op = "generation" /\ last.dthrew /\ last.preOn /\ last.errs = 1

\* C3: an enabled flush or shutdown stays awaiting while the delegate's
\* promise is pending, resolves without an error log when it fulfils, and
\* when it fails logs one error and rejects with that same failure.
C3_FlushShutdownSurfaceFailure ==
  \A i \in 1 .. Len(tasks) :
    tasks[i].kind \in {"flush", "shutdown"} =>
      /\ tasks[i].delegated = 1
      /\ tasks[i].out = "pending" => tasks[i].pc = "await" /\ tasks[i].errs = 0
      /\ tasks[i].out = "ok" => tasks[i].pc = "resolved" /\ tasks[i].errs = 0
      /\ tasks[i].out \in Errors =>
           /\ tasks[i].pc = "rejected"
           /\ tasks[i].errs = 1
           /\ tasks[i].reason = tasks[i].out

C3_Witness ==
  /\ \E i \in 1 .. Len(tasks) :
       tasks[i].kind = "flush" /\ tasks[i].pc = "rejected"
  /\ \E i \in 1 .. Len(tasks) :
       tasks[i].kind = "shutdown" /\ tasks[i].pc = "rejected"

\* C4: once initialize has returned, no step changes initialized, enabled,
\* client, sampleRate, the registered signal listeners or the number of
\* clients built, and no signal ever has more than one listener.
C4_StateFrozenAfterInitialize ==
  [][ /\ initialized => UNCHANGED facade
      /\ \A s \in Signals : handlers'[s] <= 1
      /\ clientsBuilt' <= 1 ]_vars

C4_Witness ==
  /\ last.op = "initialize" /\ last.preInit
  /\ enabled /\ handlers["SIGINT"] = 1 /\ clientsBuilt = 1

\* C5: initialize never throws and leaves initialized true; right after the
\* first call the facade is enabled with a client exactly when the enable
\* flag is 'true', both keys are present and the delegate did not throw,
\* and otherwise it is disabled, exposes no client and has no listeners.
C5_InitializeFailsClosed ==
  /\ last.op = "initialize" => initialized /\ ~last.threw
  /\ FirstInitializeReturned =>
       IF FlagTrue /\ KeysPresent /\ ~last.dthrew
       THEN enabled /\ client # Null /\ GetClientValue(enabled, client) # Null
       ELSE /\ ~IsEnabledValue(enabled)
            /\ GetClientValue(enabled, client) = Null
            /\ NoHandlers

C5_Witness ==
  /\ FirstInitializeReturned /\ FlagTrue
  /\ env.LANGFUSE_PUBLIC_KEY = "key" /\ env.LANGFUSE_SECRET_KEY = ""
  /\ ~enabled /\ initialized

\* The number (in tenths) each numeric sample-rate setting stands for.
NumericRate(v) ==
  IF v = Unset \/ v = Str(<<>>) THEN 10
  ELSE IF v = Str(<<"0", ".", "5">>) THEN 5
  ELSE IF v = Str(<<"1", ".", "5">>) THEN 15
  ELSE IF v = Str(<<"-", "0", ".", "2">>) THEN 0 - 2
  ELSE 0
IsNumericRate(v) == v # Str(<<"a", "b", "c">>)

\* C6: with a numeric rate r and the facade enabled, the stored rate is r
\* clamped to [0,1]; shouldTrace is true on every call for r >= 1, false on
\* every call for r <= 0 and otherwise true exactly when the draw is below
\* r; trace() calls the delegate exactly when shouldTrace was true.
C6_ClampedSampling ==
  (enabled /\ client # Null /\ IsNumericRate(env.LANGFUSE_SAMPLE_RATE)) =>
    LET r == NumericRate(env.LANGFUSE_SAMPLE_RATE)
        c == IF r > 10 THEN 10 ELSE IF r < 0 THEN 0 ELSE r
    IN  /\ sampleRate = Num(c)
        /\ last.op \in {"shouldTrace", "trace"} =>
             /\ r >= 10 => last.sampled
             /\ r <= 0 => ~last.sampled
             /\ (0 < r /\ r < 10) =>
                  /\ last.draw \in Draws
                  /\ last.sampled = (last.draw < r)
        /\ last.op = "shouldTrace" => last.ret = BoolStr(last.sampled)
        /\ last.op = "trace" => (last.delegated = 1) = last.sampled

C6_Witness ==
  /\ enabled /\ env.LANGFUSE_SAMPLE_RATE = Str(<<"0", ".", "5">>)
  /\ last.op = "trace" /\ last.draw = 4 /\ last.delegated = 1

InvalidRate(v) ==
  v \in {Str(<<"a", "b", "c">>), Str(<<"1", ".", "5">>),
         Str(<<"-", "0", ".", "2">>)}

HandlersExpected ==
  IF initialized /\ enabled /\ client # Null
     /\ env.LANGFUSE_FLUSH_AT_SHUTDOWN # "false"
  THEN 1 ELSE 0

\* C8: each signal has one listener exactly when initialization ended
\* enabled with a client and the flush-on-shutdown flag is not 'false'; a
\* delivered signal makes one flush call per listener; when the delegate's
\* flush settles the listener logs one outcome of its own (success, or
\* error after flush logged its own error) and ends without rejecting.
C8_SignalHandlerFlushesOnce ==
  /\ \A s \in Signals : handlers[s] = HandlersExpected
  /\ last.op = "signal" => last.delegated = HandlersExpected
  /\ \A i \in 1 .. Len(tasks) :
       tasks[i].kind = "signal" =>
         /\ tasks[i].delegated = 1
         /\ tasks[i].out = "pending" =>
              tasks[i].pc = "await" /\ tasks[i].handlerLog = "none"
         /\ tasks[i].out = "ok" =>
              /\ tasks[i].pc = "resolved"
              /\ tasks[i].handlerLog = "success"
              /\ tasks[i].errs = 0
         /\ tasks[i].out \in Errors =>
              /\ tasks[i].pc = "resolved"
              /\ tasks[i].handlerLog = "error"
              /\ tasks[i].errs = 2
              /\ tasks[i].reason = "none"

C8_Witness ==
  \E i \in 1 .. Len(tasks) :
    /\ tasks[i].kind = "signal" /\ tasks[i].sig = "SIGTERM"
    /\ tasks[i].out \in Errors /\ tasks[i].handlerLog = "error"

\* C9: a signal listener that is awaiting flush eventually completes, even
\* when the delegate's flush never settles.
C9_HandlerEventuallyCompletes ==
  \A i \in 1 .. MaxOps :
    [](  (i <= Len(tasks) /\ tasks[i].kind = "signal" /\ tasks[i].pc = "await")
      => <>(i <= Len(tasks) /\ tasks[i].pc # "await") )

\* C10: between operations enabled implies a client exists, getClient()
\* is non-null exactly when enabled, and updateTrace reaches a handle only
\* while a client exists.
C10_EnabledImpliesClient ==
  /\ enabled => client # Null
  /\ (GetClientValue(enabled, client) # Null) = enabled
  /\ (last.op = "updateTrace" /\ last.delegated = 1) => client # Null
  /\ last.op = "getClient" => (last.ret # Null) = enabled

C10_Witness ==
  /\ initialized /\ ~enabled /\ client = Client
  /\ last.op = "getClient" /\ last.ret = Null

====
